---- MODULE Spec2Model ----
(***************************************************************************)
(* Model of src/analyze_strategy.py: a linear pandas report script.        *)
(* It reads trades.csv, converts the timestamp column, sorts by            *)
(* (slug, time), prints a banner, one block per slug group, and a global   *)
(* summary.                                                                *)
(*                                                                         *)
(* Units: prices and costs are integer cents (0.35 dollars = 35),          *)
(* quantities are integer shares, timestamps are whole seconds.  A float   *)
(* is [k, n, d, e], the value (n + e / 2^54) / d: e is the distance of the *)
(* double from the rational n / d, kept where the script compares a        *)
(* computed double (the mean price) with a literal; NaN, Inf and NaT are   *)
(* the special values numpy / pandas produce.                              *)
(***************************************************************************)
EXTENDS Integers, Sequences, FiniteSets, TLC

VARIABLES
    file,     \* the input file: [exists, rows]; rows are the CSV lines in file order
    df,       \* the module-level DataFrame (a sequence of rows carrying their index)
    pc,       \* position of the script
    pending,  \* the groupby iterator: groups not yet visited by the for loop
    out,      \* everything printed to standard output so far, as a sequence of events
    err       \* the exception that ended the run, or "none"

vars == <<file, df, pc, pending, out, err>>

----------------------------------------------------------------------------
(* Bounds of the input space *)

\* longest file of the first family: one group, every combination of time, side and fill
MaxLines == 2
\* longest file of the second family: slug, time and side vary, fills follow a fixed pattern
MaxTrades == 4

Slugs == {1, 2}
\* the slug of a line whose slug cell is empty: read_csv makes it NaN
NaNSlug == -1
Sides == {"Up", "Down"}
\* timestamp texts <<minute, second>>; Garbage is text that is no date
RawTimes == {<<0, 0>>, <<0, 5>>, <<1, 0>>}
LongTimes == {<<0, 0>>, <<1, 0>>}
Garbage == <<99, 99>>
\* (quantity, price in cents) of one trade
Fills == {<<0, 30>>, <<1, 35>>, <<2, 70>>}
\* number of copies of the first line of the file (a burst of identical fills)
Reps == {1, 10, 20, 59}

----------------------------------------------------------------------------
(* Program constants *)

ExcerptSize == 10      \* head(10) / tail(10)
TailGate == 20         \* len(group) > 20
PatternWindow == 20    \* group.head(20)
CheapCents == 35       \* 0.35
HedgeSeconds == 60     \* time_diff < 60
SustainedCount == 50   \* len(group) > 50

----------------------------------------------------------------------------
(* Float / Timestamp values *)

Flt(n, d, e) == [k |-> "num", n |-> n, d |-> d, e |-> e]
Num(n, d) == Flt(n, d, 0)
NaN == [k |-> "nan", n |-> 0, d |-> 1, e |-> 0]
Inf == [k |-> "inf", n |-> 0, d |-> 1, e |-> 0]
Stamp(s) == [k |-> "ts", n |-> s, d |-> 1, e |-> 0]
NaT == [k |-> "nat", n |-> 0, d |-> 1, e |-> 0]

\* numpy scalar division a / b of non-negative numbers: a warning, never an exception
np_div(a, b) ==
    IF b = 0 THEN (IF a = 0 THEN NaN ELSE Inf) ELSE Num(a, b)

\* float < float; any comparison with NaN is False.  The e parts are far below one
\* unit of n, so they decide only between equal rationals.
lt(x, y) ==
    /\ x.k = "num"
    /\ y.k = "num"
    /\ \/ x.n * y.d < y.n * x.d
       \/ (x.n * y.d = y.n * x.d /\ x.e * y.d < y.e * x.d)

----------------------------------------------------------------------------
(* IEEE-754 double arithmetic on dollar amounts in [0.25, 32), as float64 does it.  *)
(* A double in that range is a multiple of 2^-54; in cents it is n + e / 2^54, so   *)
(* n * 2^54 + e is a multiple of 100 * 2^j, where 2^j * 2^-54 is the spacing of     *)
(* doubles in the binade of the value.                                              *)

RECURSIVE Pow2Mod(_, _)
Pow2Mod(k, M) == IF k = 0 THEN 1 % M ELSE (2 * Pow2Mod(k - 1, M)) % M

\* 2^54 mod M for the moduli that occur: M = 100 * count * 2^j
Moduli == {100 * c * (2 ^ j) : c \in 1..PatternWindow, j \in 0..7}
TwoTo54Mod == [M \in Moduli |-> Pow2Mod(54, M)]

\* (n * 2^54 + e) mod M
ScaledMod(n, e, M) == (((n % M) * TwoTo54Mod[M]) + e) % M

\* the binade of (n + e / 2^54) / (100 * c) dollars: j with 2^(j-2) <= value < 2^(j-1)
RECURSIVE Binade(_, _, _, _)
Binade(n, e, c, j) ==
    IF 4 * n > 100 * c * (2 ^ (j + 1)) \/ (4 * n = 100 * c * (2 ^ (j + 1)) /\ e >= 0)
    THEN Binade(n, e, c, j + 1)
    ELSE j

\* what rounding to the nearest multiple of M adds to n * 2^54 + e (ties to even)
RoundDelta(n, e, M) ==
    LET r2 == ScaledMod(n, e, 2 * M)
        r == r2 % M
    IN IF 2 * r < M THEN 0 - r
       ELSE IF 2 * r > M THEN M - r
       ELSE IF r2 >= M THEN M - r ELSE 0 - r

\* the exact value (n + e / 2^54) / (100 * c) rounded to a double
fp_round(n, e, c) == Flt(n, c, e + RoundDelta(n, e, 100 * c * (2 ^ Binade(n, e, c, 0))))

\* the double that a price text of p cents parses to
PriceDouble == [p \in 25..99 |-> fp_round(p, 0, 1)]

\* x + y and x / count in float64
fp_add(x, y) == fp_round(x.n + y.n, x.e + y.e, 1)
fp_div(x, c) == fp_round(x.n, x.e, c)

RECURSIVE FoldAdd(_, _, _)
FoldAdd(a, i, acc) == IF i > Len(a) THEN acc ELSE FoldAdd(a, i + 1, fp_add(acc, a[i]))

\* accumulator k of numpy's unrolled loop: a[k] + a[8 + k] + ... over b whole blocks
RECURSIVE Lane(_, _, _)
Lane(a, k, b) == IF b = 1 THEN a[k] ELSE fp_add(Lane(a, k, b - 1), a[8 * (b - 1) + k])

\* numpy's sum of 1 to 128 doubles: left to right below 8 elements, otherwise eight
\* interleaved accumulators combined as a tree, then the remaining elements
np_sum(a) ==
    IF Len(a) < 8 THEN FoldAdd(a, 2, a[1])
    ELSE LET b == Len(a) \div 8
             r == [k \in 1..8 |-> Lane(a, k, b)]
         IN FoldAdd(a, 8 * b + 1,
                    fp_add(fp_add(fp_add(r[1], r[2]), fp_add(r[3], r[4])),
                           fp_add(fp_add(r[5], r[6]), fp_add(r[7], r[8]))))

----------------------------------------------------------------------------
(* Series helpers *)

RECURSIVE SumTo(_, _)
SumTo(s, n) == IF n = 0 THEN 0 ELSE s[n] + SumTo(s, n - 1)

Sum(s) == SumTo(s, Len(s))

\* least / greatest element of a non-empty sequence
RECURSIVE MinTo(_, _)
MinTo(s, n) == IF n = 1 THEN s[1] ELSE LET m == MinTo(s, n - 1) IN IF s[n] < m THEN s[n] ELSE m

RECURSIVE MaxTo(_, _)
MaxTo(s, n) == IF n = 1 THEN s[1] ELSE LET m == MaxTo(s, n - 1) IN IF s[n] > m THEN s[n] ELSE m

SeqMin(s) == MinTo(s, Len(s))
SeqMax(s) == MaxTo(s, Len(s))

Col(t, c) == [i \in 1..Len(t) |-> t[i][c]]

\* Series.sum(): 0 on an empty Series
col_sum(t, c) == Sum(Col(t, c))

\* Series.min() / .max() of a float column: NaN on an empty Series
col_min(t, c) == IF t = <<>> THEN NaN ELSE Num(SeqMin(Col(t, c)), 1)
col_max(t, c) == IF t = <<>> THEN NaN ELSE Num(SeqMax(Col(t, c)), 1)

\* Series.min() / .max() of the datetime column: NaT on an empty Series
time_min(t) == IF t = <<>> THEN NaT ELSE Stamp(SeqMin(Col(t, "time")))
time_max(t) == IF t = <<>> THEN NaT ELSE Stamp(SeqMax(Col(t, "time")))

\* Series.mean() of the price column: NaN on an empty Series, else the float64 sum
\* divided by the count
col_mean(t, c) ==
    IF t = <<>> THEN NaN
    ELSE fp_div(np_sum([i \in 1..Len(t) |-> PriceDouble[t[i][c]]]), Len(t))

RECURSIVE InsertInt(_, _)
InsertInt(x, s) ==
    IF s = <<>> THEN <<x>>
    ELSE IF x <= Head(s) THEN <<x>> \o s
    ELSE <<Head(s)>> \o InsertInt(x, Tail(s))

RECURSIVE SortInts(_)
SortInts(s) == IF s = <<>> THEN <<>> ELSE InsertInt(Head(s), SortInts(Tail(s)))

\* Series.median(): NaN on an empty Series, the mean of the two middle values on an even one
col_median(t, c) ==
    IF t = <<>> THEN NaN
    ELSE LET s == SortInts(Col(t, c))
             n == Len(s)
         IN IF n % 2 = 1 THEN Num(s[(n + 1) \div 2], 1)
            ELSE Num(s[n \div 2] + s[n \div 2 + 1], 2)

\* df[df['结果'] == side]
side_rows(t, side) == SelectSeq(t, LAMBDA r : r.side = side)

\* DataFrame.head(n) / .tail(n)
head(t, n) == SubSeq(t, 1, IF Len(t) < n THEN Len(t) ELSE n)
tail(t, n) == SubSeq(t, (IF Len(t) < n THEN 0 ELSE Len(t) - n) + 1, Len(t))

----------------------------------------------------------------------------
(* Loading *)

\* pd.read_csv: the lines of the file with a RangeIndex
read_csv(rows) ==
    [i \in 1..Len(rows) |->
        [idx |-> i, slug |-> rows[i].slug, time |-> rows[i].time, side |-> rows[i].side,
         qty |-> rows[i].qty, price |-> rows[i].price, cost |-> rows[i].cost]]

Parseable(t) == t[1] \in 0..59 /\ t[2] \in 0..59
ParseStamp(t) == 60 * t[1] + t[2]

\* pd.to_datetime over the time column
to_datetime(t) == [i \in 1..Len(t) |-> [t[i] EXCEPT !.time = ParseStamp(t[i].time)]]

\* row a sorts strictly before row b under the keys ['slug', '时间']; a NaN slug sorts
\* after every slug (na_position = 'last')
KeyLess(a, b) ==
    \/ a.slug # NaNSlug /\ (b.slug = NaNSlug \/ a.slug < b.slug)
    \/ a.slug = b.slug /\ a.time < b.time

\* stable merge of two sorted runs: on equal keys the row of the left run goes first
RECURSIVE Merge(_, _, _)
Merge(a, b, acc) ==
    IF a = <<>> THEN acc \o b
    ELSE IF b = <<>> THEN acc \o a
    ELSE IF KeyLess(Head(b), Head(a)) THEN Merge(a, Tail(b), Append(acc, Head(b)))
    ELSE Merge(Tail(a), b, Append(acc, Head(a)))

RECURSIVE MergeSort(_)
MergeSort(t) ==
    IF Len(t) <= 1 THEN t
    ELSE Merge(MergeSort(SubSeq(t, 1, Len(t) \div 2)),
               MergeSort(SubSeq(t, Len(t) \div 2 + 1, Len(t))), <<>>)

\* a sort_values that leaves the file order
sort_values_kept(t) == t

\* df.sort_values(['slug', '时间']): ascending, rows with equal keys keep file order
sort_values(t) == MergeSort(t)

\* df.groupby('slug'): one group per distinct slug, keys ascending, rows in df order;
\* rows with a NaN slug are in no group (dropna = True)
groupby(t) ==
    LET keys == SortInts(
            LET RECURSIVE Enum(_)
                Enum(S) == IF S = {} THEN <<>>
                           ELSE LET x == CHOOSE y \in S : TRUE IN <<x>> \o Enum(S \ {x})
            IN Enum({t[i].slug : i \in 1..Len(t)} \ {NaNSlug}))
    IN [j \in 1..Len(keys) |->
            [slug |-> keys[j], rows |-> SelectSeq(t, LAMBDA r : r.slug = keys[j])]]

----------------------------------------------------------------------------
(* Output events *)

Ev(kind, slug, v) == [kind |-> kind, slug |-> slug, v |-> v]

----------------------------------------------------------------------------
(* Per-group report, lines 20-88 *)

up_trades(group) == side_rows(group, "Up")
down_trades(group) == side_rows(group, "Down")
up_qty(group) == col_sum(up_trades(group), "qty")
down_qty(group) == col_sum(down_trades(group), "qty")
up_cost(group) == col_sum(up_trades(group), "cost")
down_cost(group) == col_sum(down_trades(group), "cost")

\* cost / qty if qty > 0 else 0
side_avg(cost, qty) == IF qty > 0 THEN Num(cost, qty) ELSE Num(0, 1)

\* the total cost over the total quantity of both sides
combined_both_sides(group) ==
    Num(up_cost(group) + down_cost(group),
        IF up_qty(group) + down_qty(group) > 0 THEN up_qty(group) + down_qty(group) ELSE 1)

\* (up_cost + down_cost) / (up_qty if up_qty > 0 else 1)
combined(group) ==
    Num(up_cost(group) + down_cost(group), IF up_qty(group) > 0 THEN up_qty(group) ELSE 1)

\* the difference without abs()
imbalance_signed(group) == up_qty(group) - down_qty(group)

\* abs(up_qty - down_qty)
imbalance(group) ==
    IF up_qty(group) - down_qty(group) < 0 THEN down_qty(group) - up_qty(group)
    ELSE up_qty(group) - down_qty(group)

first_trades(group) == head(group, PatternWindow)
first_up_avg(group) == col_mean(side_rows(first_trades(group), "Up"), "price")
first_down_avg(group) == col_mean(side_rows(first_trades(group), "Down"), "price")
cheap_entry(group) ==
    \/ lt(first_up_avg(group), PriceDouble[CheapCents])
    \/ lt(first_down_avg(group), PriceDouble[CheapCents])

up_first(group) == time_min(up_trades(group))
down_first(group) == time_min(down_trades(group))

\* abs((up_first - down_first).total_seconds()): NaT arithmetic gives NaT, whose total_seconds() is nan
time_diff(group) ==
    LET a == up_first(group)
        b == down_first(group)
    IN IF a.k = "nat" \/ b.k = "nat" THEN NaN
       ELSE Num(IF a.n - b.n < 0 THEN b.n - a.n ELSE a.n - b.n, 1)

\* the hedge window with its end included
fast_hedge_inclusive(group) == lt(time_diff(group), Num(HedgeSeconds + 1, 1))
fast_hedge(group) == lt(time_diff(group), Num(HedgeSeconds, 1))

\* lines 20-24
HeaderEvents(s, group) ==
    <<Ev("group_header", s,
         [count |-> Len(group), tmin |-> time_min(group), tmax |-> time_max(group),
          duration |-> time_max(group).n - time_min(group).n])>>

\* lines 35-39
PositionEvents(s, group) ==
    <<Ev("position", s,
         [up_qty |-> up_qty(group), down_qty |-> down_qty(group),
          up_cost |-> up_cost(group), down_cost |-> down_cost(group),
          up_avg |-> side_avg(up_cost(group), up_qty(group)),
          down_avg |-> side_avg(down_cost(group), down_qty(group)),
          combined |-> combined(group), imbalance |-> imbalance(group)])>>

\* lines 42-44
PriceRangeEvents(s, group) ==
    <<Ev("price_range", s,
         [up_min |-> col_min(up_trades(group), "price"), up_max |-> col_max(up_trades(group), "price"),
          down_min |-> col_min(down_trades(group), "price"),
          down_max |-> col_max(down_trades(group), "price")])>>

\* the tail printed as soon as the group is longer than the head excerpt
ExcerptEventsEarlyTail(s, group) ==
    <<Ev("head_excerpt", s, head(group, ExcerptSize))>>
    \o (IF Len(group) > ExcerptSize
        THEN <<Ev("gap_marker", s, Len(group) - 20), Ev("tail_excerpt", s, tail(group, ExcerptSize))>>
        ELSE <<>>)

\* lines 47-55
ExcerptEvents(s, group) ==
    <<Ev("head_excerpt", s, head(group, ExcerptSize))>>
    \o (IF Len(group) > TailGate
        THEN <<Ev("gap_marker", s, Len(group) - 20), Ev("tail_excerpt", s, tail(group, ExcerptSize))>>
        ELSE <<>>)

\* lines 58-68
PatternEvents(s, group) ==
    <<Ev("first20", s, [up_avg |-> first_up_avg(group), down_avg |-> first_down_avg(group)])>>
    \o (IF cheap_entry(group) THEN <<Ev("cheap_entry", s, TRUE)>> ELSE <<>>)

\* lines 85-88
ClosingEvents(s, group) ==
    (IF Len(group) > SustainedCount THEN <<Ev("sustained", s, Len(group))>> ELSE <<>>)
    \o <<Ev("group_end", s, TRUE)>>

\* lines 20-68: nothing here can raise
BeforeHedge(s, group) ==
    HeaderEvents(s, group) \o PositionEvents(s, group) \o PriceRangeEvents(s, group)
    \o ExcerptEvents(s, group) \o PatternEvents(s, group)

\* lines 75-82 when both first-trade times exist
HedgeEvents(s, group) ==
    <<Ev("first_up", s, up_first(group)), Ev("first_down", s, down_first(group)),
      Ev("time_diff", s, time_diff(group)),
      IF fast_hedge(group) THEN Ev("fast_hedge", s, TRUE) ELSE Ev("delayed_hedge", s, TRUE)>>

----------------------------------------------------------------------------
(* Global summary, lines 91-113 *)

\* df['slug'].nunique(): NaN is not counted
total_events(t) == Cardinality({t[i].slug : i \in 1..Len(t)} \ {NaNSlug})
up_total(t) == col_sum(side_rows(t, "Up"), "qty")
down_total(t) == col_sum(side_rows(t, "Down"), "qty")

\* lines 91-97
GlobalHead(t) ==
    <<Ev("global_header", 0, TRUE), Ev("global_counts", 0,
         [total_events |-> total_events(t), total_trades |-> Len(t)])>>

\* lines 98-113
GlobalRest(t) ==
    <<Ev("global_avg", 0, Num(Len(t), total_events(t))),
      Ev("global_median", 0,
         [up |-> col_median(side_rows(t, "Up"), "price"),
          down |-> col_median(side_rows(t, "Down"), "price")]),
      Ev("global_totals", 0, [up_total |-> up_total(t), down_total |-> down_total(t)]),
      Ev("global_ratio", 0, np_div(up_total(t), down_total(t))),
      Ev("complete", 0, TRUE)>>

----------------------------------------------------------------------------
(* Inputs *)

\* one line of the file; the cost column holds quantity times price
Line(s, t, side, f) ==
    [slug |-> s, time |-> t, side |-> side, qty |-> f[1], price |-> f[2], cost |-> f[1] * f[2]]

Lines ==
    {Line(1, t, side, f) : t \in RawTimes, side \in Sides, f \in Fills}
    \cup {Line(1, Garbage, "Up", <<1, 35>>)}

\* the file whose first line is repeated r times
Burst(t, r) ==
    IF t = <<>> THEN t ELSE [i \in 1..r |-> t[1]] \o Tail(t)

\* first family: short files of one group over every combination of time, side and
\* fill, the first line possibly repeated
ShortTables == UNION {[1..n -> Lines] : n \in 0..MaxLines}

\* second family: slug, time and side vary, a line may have an empty slug cell, the
\* i-th line carries the i-th fill of a fixed pattern
FillAt(i) == <<<<1, 35>>, <<2, 70>>, <<1, 30>>>>[((i - 1) % 3) + 1]

Keys == (Slugs \X LongTimes \X Sides) \cup {<<NaNSlug, <<0, 0>>, "Up">>}

LongTable(k) == [i \in 1..Len(k) |-> Line(k[i][1], k[i][2], k[i][3], FillAt(i))]

Init ==
    /\ \/ file = [exists |-> FALSE, rows |-> <<>>]
       \/ \E t \in ShortTables, r \in Reps : file = [exists |-> TRUE, rows |-> Burst(t, r)]
       \/ \E n \in 0..MaxTrades : \E k \in [1..n -> Keys] :
              file = [exists |-> TRUE, rows |-> LongTable(k)]
    /\ df = <<>>
    /\ pc = "read_csv"
    /\ pending = <<>>
    /\ out = <<>>
    /\ err = "none"

----------------------------------------------------------------------------
(* Steps of the script *)

\* line 6
ReadCsv ==
    /\ pc = "read_csv"
    /\ IF file.exists
       THEN /\ df' = read_csv(file.rows)
            /\ pc' = "to_datetime"
            /\ err' = err
       ELSE /\ df' = df
            /\ pc' = "aborted"
            /\ err' = "FileNotFoundError"
    /\ UNCHANGED <<file, pending, out>>

\* a conversion that coerces unparseable text (to midnight) instead of raising
ToDatetimeCoerce ==
    /\ pc = "to_datetime"
    /\ df' = [i \in 1..Len(df) |->
                [df[i] EXCEPT !.time = IF Parseable(df[i].time) THEN ParseStamp(df[i].time) ELSE 0]]
    /\ pc' = "sort_values"
    /\ UNCHANGED <<file, pending, out, err>>

\* line 9
ToDatetime ==
    /\ pc = "to_datetime"
    /\ IF \A i \in 1..Len(df) : Parseable(df[i].time)
       THEN /\ df' = to_datetime(df)
            /\ pc' = "sort_values"
            /\ err' = err
       ELSE /\ df' = df
            /\ pc' = "aborted"
            /\ err' = "ParserError"
    /\ UNCHANGED <<file, pending, out>>

\* line 12
SortValues ==
    /\ pc = "sort_values"
    /\ df' = sort_values(df)
    /\ pc' = "banner"
    /\ UNCHANGED <<file, pending, out, err>>

\* lines 15-19: the banner, then the groupby iterator is created
Banner ==
    /\ pc = "banner"
    /\ out' = out \o <<Ev("banner", 0, TRUE)>>
    /\ pending' = groupby(df)
    /\ pc' = "groups"
    /\ UNCHANGED <<file, df, err>>

\* lines 19-88: one iteration of the for loop
GroupBlock ==
    /\ pc = "groups"
    /\ pending # <<>>
    /\ LET s == Head(pending).slug
           group == Head(pending).rows
       IN IF up_first(group).k = "nat"
          THEN \* line 75: NaT.strftime raises
               /\ out' = out \o BeforeHedge(s, group)
               /\ pc' = "crashed"
               /\ err' = "ValueError"
               /\ pending' = pending
          ELSE IF down_first(group).k = "nat"
          THEN \* line 76: NaT.strftime raises
               /\ out' = out \o BeforeHedge(s, group) \o <<Ev("first_up", s, up_first(group))>>
               /\ pc' = "crashed"
               /\ err' = "ValueError"
               /\ pending' = pending
          ELSE /\ out' = out \o BeforeHedge(s, group) \o HedgeEvents(s, group)
                              \o ClosingEvents(s, group)
               /\ pc' = pc
               /\ err' = err
               /\ pending' = Tail(pending)
    /\ UNCHANGED <<file, df>>

\* lines 91-113
GlobalSummary ==
    /\ pc = "groups"
    /\ pending = <<>>
    /\ IF total_events(df) = 0
       THEN \* line 98: len(df) / total_events on Python ints
            /\ out' = out \o GlobalHead(df)
            /\ pc' = "crashed"
            /\ err' = "ZeroDivisionError"
       ELSE /\ out' = out \o GlobalHead(df) \o GlobalRest(df)
            /\ pc' = "done"
            /\ err' = err
    /\ UNCHANGED <<file, df, pending>>

Next ==
    \/ ReadCsv
    \/ ToDatetime
    \/ SortValues
    \/ Banner
    \/ GroupBlock
    \/ GlobalSummary

Spec == Init /\ [][Next]_vars

----------------------------------------------------------------------------
(* Facts read off the input file and the output, used to state the properties *)

\* the sum of f over its (finite) domain
RECURSIVE SumOver(_, _)
SumOver(f, S) ==
    IF S = {} THEN 0
    ELSE LET x == CHOOSE y \in S : TRUE IN f[x] + SumOver(f, S \ {x})

FSum(f) == SumOver(f, DOMAIN f)

LoadSucceeds == file.exists /\ \A i \in 1..Len(file.rows) : Parseable(file.rows[i].time)

\* the group ids of the file; a line with an empty slug cell has none
FileSlugs == {file.rows[i].slug : i \in 1..Len(file.rows)} \ {NaNSlug}
FileLines(s, side) ==
    {i \in 1..Len(file.rows) : file.rows[i].slug = s /\ file.rows[i].side = side}
FileCount(s) == Cardinality(FileLines(s, "Up") \cup FileLines(s, "Down"))
FileQty(s, side) == FSum([i \in FileLines(s, side) |-> file.rows[i].qty])
FileCost(s, side) == FSum([i \in FileLines(s, side) |-> file.rows[i].cost])
\* the earliest time of a side of a group (the side has a line)
FileFirst(s, side) ==
    LET T == {ParseStamp(file.rows[i].time) : i \in FileLines(s, side)}
    IN CHOOSE t \in T : \A u \in T : t <= u
FileLast(s, side) ==
    LET T == {ParseStamp(file.rows[i].time) : i \in FileLines(s, side)}
    IN CHOOSE t \in T : \A u \in T : t >= u
BothSides(s) == FileLines(s, "Up") # {} /\ FileLines(s, "Down") # {}
OneSided(s) == FileCount(s) > 0 /\ ~BothSides(s)
Dist(a, b) == IF a < b THEN b - a ELSE a - b

Where(kind, s) == {i \in DOMAIN out : out[i].kind = kind /\ out[i].slug = s}
Has(kind, s) == Where(kind, s) # {}
Val(kind, s) == out[CHOOSE i \in Where(kind, s) : TRUE].v
Positions == {i \in DOMAIN out : out[i].kind = "position"}

\* the rows of one group in the order of the sorted DataFrame
GroupRows(s) == SelectSeq(df, LAMBDA r : r.slug = s)

\* banner 0, the block of group s at s, the global summary after every group
Stage(e) ==
    IF e.kind = "banner" THEN 0
    ELSE IF e.slug # 0 THEN e.slug
    ELSE 1 + (CHOOSE m \in Slugs : \A x \in Slugs : x <= m)

Ascending(rows) == \A i, j \in 1..Len(rows) : i < j => rows[i].time <= rows[j].time

----------------------------------------------------------------------------
(* C1: every group with records of only one side gets a complete block: the missing  *)
(* side's statistics, first-trade time and hedge gap are reported as absent, no      *)
(* error is raised and the run goes on.                                              *)
C1_OneSidedGroupCompletes ==
    \A s \in Slugs :
        (OneSided(s) /\ Has("group_header", s)) =>
            /\ err = "none"
            /\ Has("group_end", s)
            /\ Has("time_diff", s) /\ Val("time_diff", s).k = "nan"

(* C2: when the total Down quantity of the table is 0, the run ends normally with    *)
(* the completion line and the ratio of the global summary is reported as undefined. *)
C2_ZeroDownRatioUndefined ==
    (/\ LoadSucceeds
     /\ pc \in {"done", "crashed"}
     /\ FSum([i \in {j \in 1..Len(file.rows) : file.rows[j].side = "Down"} |-> file.rows[i].qty]) = 0)
    => (/\ pc = "done"
        /\ Has("complete", 0)
        /\ Val("global_ratio", 0).k \in {"nan", "inf"})

(* C3: nothing is printed before the file has been read and its timestamps have been *)
(* converted, and a run whose load fails prints nothing at all.                      *)
C3_NoOutputBeforeLoad ==
    /\ out # <<>> => (LoadSucceeds /\ pc \notin {"read_csv", "to_datetime", "sort_values", "aborted"})
    /\ ~LoadSucceeds => out = <<>>
    /\ pc = "aborted" => ~LoadSucceeds

C3_Witness ==
    /\ pc = "aborted"
    /\ err = "ParserError"
    /\ Len(file.rows) >= 2
    /\ Parseable(file.rows[1].time)
    /\ out = <<>>

(* C4: the output never goes back to an earlier stage (banner, groups in ascending   *)
(* group id, global summary); a successful run prints the banner once, one block per *)
(* distinct group id, its records in ascending time, then the global summary once.   *)
C4_OutputOrder ==
    /\ \A i \in 1..(Len(out) - 1) : Stage(out[i]) <= Stage(out[i + 1])
    /\ out # <<>> => out[1].kind = "banner"
    /\ Cardinality(Where("banner", 0)) <= 1
    /\ pc = "done" =>
        /\ Cardinality(Where("banner", 0)) = 1
        /\ \A s \in FileSlugs :
            /\ Cardinality(Where("group_header", s)) = 1
            /\ Cardinality(Where("group_end", s)) = 1
            /\ Val("group_header", s).count = FileCount(s)
            /\ Ascending(Val("head_excerpt", s))
            /\ Has("tail_excerpt", s) =>
                Ascending(Val("head_excerpt", s) \o Val("tail_excerpt", s))
        /\ \A s \in Slugs \ FileSlugs : \A i \in DOMAIN out : out[i].slug # s
        /\ Cardinality(Where("global_header", 0)) = 1
        /\ Cardinality(Where("complete", 0)) = 1
        /\ out[Len(out)].kind = "complete"

C4_Witness ==
    /\ pc = "done"
    /\ FileSlugs = {1, 2}
    /\ file.rows[1].slug = 2
    /\ \E i, j \in 1..Len(file.rows) :
        /\ i < j
        /\ file.rows[i].slug = file.rows[j].slug
        /\ ParseStamp(file.rows[i].time) > ParseStamp(file.rows[j].time)

(* C5: the Up and Down quantities of the group blocks add up to the global totals,   *)
(* and the groups together hold every record of the table exactly once.              *)
C5_GroupTotalsAddUp ==
    Has("global_totals", 0) =>
        /\ FSum([i \in Positions |-> out[i].v.up_qty + out[i].v.down_qty])
             = Val("global_totals", 0).up_total + Val("global_totals", 0).down_total
        /\ FSum([i \in {j \in DOMAIN out : out[j].kind = "group_header"} |-> out[i].v.count])
             = Val("global_counts", 0).total_trades
        /\ Val("global_counts", 0).total_trades = Len(file.rows)
        /\ Cardinality(Positions) = Val("global_counts", 0).total_events

(* C6: the imbalance of every group block is non-negative, is the absolute           *)
(* difference of the group's Up and Down quantities, and is 0 exactly when they are  *)
(* equal.                                                                            *)
C6_Imbalance ==
    \A i \in Positions :
        LET u == FileQty(out[i].slug, "Up")
            d == FileQty(out[i].slug, "Down")
            m == out[i].v.imbalance
        IN /\ m >= 0
           /\ m = Dist(u, d)
           /\ (m = 0) <=> (u = d)

C6_Witness ==
    \E i, j \in Positions :
        /\ out[i].v.up_qty > 0 /\ out[i].v.down_qty > out[i].v.up_qty
        /\ out[i].v.imbalance = out[i].v.down_qty - out[i].v.up_qty
        /\ out[j].v.up_qty > 0 /\ out[j].v.up_qty = out[j].v.down_qty /\ out[j].v.imbalance = 0

(* C7: the head excerpt of a group is its first min(count, 10) records; the gap      *)
(* marker and the tail excerpt are printed iff count > 20, the tail being the last   *)
(* 10 records and the marker count - 20; head and tail share no record and           *)
(* head + omitted + tail = count.                                                    *)
C7_Excerpts ==
    \A s \in Slugs :
        Has("head_excerpt", s) =>
            LET g == GroupRows(s)
                n == Len(g)
                h == Val("head_excerpt", s)
            IN /\ n = FileCount(s)
               /\ Len(h) = (IF n < 10 THEN n ELSE 10)
               /\ \A i \in 1..Len(h) : h[i] = g[i]
               /\ Has("tail_excerpt", s) <=> n > 20
               /\ Has("gap_marker", s) <=> n > 20
               /\ n > 20 =>
                    LET t == Val("tail_excerpt", s)
                    IN /\ Len(t) = 10
                       /\ \A i \in 1..10 : t[i] = g[n - 10 + i]
                       /\ Val("gap_marker", s) = n - 20
                       /\ {h[i].idx : i \in 1..Len(h)} \cap {t[i].idx : i \in 1..Len(t)} = {}
                       /\ Len(h) + Val("gap_marker", s) + Len(t) = n

C7_Witness ==
    \E s \in Slugs :
        /\ FileCount(s) = 60
        /\ Has("gap_marker", s) /\ Val("gap_marker", s) = 40
        /\ Len(Val("head_excerpt", s)) = 10 /\ Len(Val("tail_excerpt", s)) = 10
        /\ Val("head_excerpt", s)[1].time < Val("tail_excerpt", s)[10].time

(* C8: in a group with both sides the hedge gap is the distance between the earliest *)
(* Up and the earliest Down time of the group, the fast-hedge message is printed iff *)
(* the gap is below 60 seconds, exactly one of the two hedge messages is printed,    *)
(* and a group whose trades all lie within 5 seconds is a fast hedge.                *)
C8_HedgeGap ==
    \A s \in Slugs :
        (BothSides(s) /\ Has("group_header", s)) =>
            LET gap == Dist(FileFirst(s, "Up"), FileFirst(s, "Down"))
                first == IF FileFirst(s, "Up") < FileFirst(s, "Down")
                         THEN FileFirst(s, "Up") ELSE FileFirst(s, "Down")
                last == IF FileLast(s, "Up") > FileLast(s, "Down")
                        THEN FileLast(s, "Up") ELSE FileLast(s, "Down")
            IN /\ Has("time_diff", s) /\ Val("time_diff", s) = Num(gap, 1)
               /\ Has("fast_hedge", s) <=> gap < 60
               /\ Cardinality(Where("fast_hedge", s)) + Cardinality(Where("delayed_hedge", s)) = 1
               /\ last - first <= 5 => Has("fast_hedge", s)

C8_Witness ==
    \E s \in Slugs :
        /\ BothSides(s)
        /\ Cardinality(FileLines(s, "Up")) >= 2
        /\ FileFirst(s, "Up") < FileLast(s, "Up")
        /\ Dist(FileFirst(s, "Up"), FileFirst(s, "Down")) = 60
        /\ Has("delayed_hedge", s)
        /\ ~Has("fast_hedge", s)

(* C9: the cheap-entry message of a group is printed iff, among its first 20 records *)
(* in sorted order, the mean Up price or the mean Down price is below 0.35 (the mean *)
(* as a number, not as the script's float64 result); a side without a record in the  *)
(* window does not count and later records have no effect.                           *)
C9_CheapEntry ==
    \A s \in Slugs :
        Has("first20", s) =>
            LET g == GroupRows(s)
                w == IF Len(g) < 20 THEN Len(g) ELSE 20
                In(side) == {i \in 1..w : g[i].side = side}
                Cheap(side) ==
                    /\ In(side) # {}
                    /\ FSum([i \in In(side) |-> g[i].price]) < 35 * Cardinality(In(side))
            IN Has("cheap_entry", s) <=> (Cheap("Up") \/ Cheap("Down"))

(* C10: the combined average price of every group block is (up_cost + down_cost)     *)
(* over up_quantity when up_quantity > 0 and over 1 otherwise; the divisor is never  *)
(* 0 and never holds the Down quantity.                                              *)
C10_CombinedPrice ==
    \A i \in Positions :
        LET s == out[i].slug
            c == out[i].v.combined
        IN /\ c.k = "num"
           /\ c.n = FileCost(s, "Up") + FileCost(s, "Down")
           /\ c.d = (IF FileQty(s, "Up") > 0 THEN FileQty(s, "Up") ELSE 1)
           /\ c.d # 0

C10_Witness ==
    \E i, j \in Positions :
        /\ FileLines(out[i].slug, "Up") = {}
        /\ FileQty(out[i].slug, "Down") > 0
        /\ out[i].v.combined = Num(FileCost(out[i].slug, "Down"), 1)
        /\ out[i].v.combined.n > 0
        /\ FileQty(out[j].slug, "Up") > 0 /\ FileQty(out[j].slug, "Down") > 0
        /\ out[j].v.combined.d = FileQty(out[j].slug, "Up")

====
